---------------------------- MODULE Spec2Model ----------------------------
(***************************************************************************)
(* A model of refactor_strings.py: the run of main() over a tree of Java   *)
(* files (classification, the thread pool, one refactor_file task per      *)
(* candidate, atomic_write on the filesystem, the completion loop), and    *)
(* the retry loop of the requests session built by setup_requests_session. *)
(***************************************************************************)
EXTENDS Integers, Sequences, FiniteSets, TLC

(***************************************************************************)
(* Bounds of the model.                                                    *)
(***************************************************************************)
NumFiles == 2       \* *.java files found under --root
MaxWorkers == 2     \* largest --workers value explored
MaxRetries == 3     \* largest --retries value explored
MaxLen == 4         \* longest text over all six characters
MaxMarkLen == 8     \* longest text over the four marker characters
MaxDepth == 1       \* directory levels below --root
MaxRootDepth == 2   \* parts of the --root path

(***************************************************************************)
(* Program constants.                                                      *)
(***************************************************************************)
DefaultRetries == 3                              \* --retries default
status_forcelist == {429, 500, 502, 503, 504}    \* Retry(status_forcelist=...)

Files == 1 .. NumFiles

\* The files returned by collect_java_files, in the order rglob yields them.
all_java == [i \in 1 .. NumFiles |-> i]

(***************************************************************************)
(* The filesystem.  A path is the Java file or one of the siblings the     *)
(* program derives from it; fs maps every existing path to its content, a  *)
(* sequence of chunks.                                                     *)
(***************************************************************************)
TmpShared(f) == <<0, "tmp">>   \* one fixed temp name for every target
Target(f) == <<f, "java">>     \* the source file itself
Bak(f) == <<f, "bak">>         \* path.with_suffix(path.suffix + ".bak")
New(f) == <<f, "new">>         \* path.with_suffix(path.suffix + ".new")
Tmp(f) == <<f, "tmp">>         \* the name tempfile.mkstemp creates

Orig(f) == <<f>>               \* content of file f before the run

\* What the service may answer as choices[0].message.content for a request
\* carrying src: a text, or JSON null.
NonText == <<-1>>
Rewrites(s) == {<<0>> \o s, <<0, 0>> \o s}

\* The proper prefixes of data: what a failed write can leave behind.
Prefixes(data) == {SubSeq(data, 1, k) : k \in 0 .. (Len(data) - 1)}

Put(files, p, data) == [q \in (DOMAIN files) \cup {p} |-> IF q = p THEN data ELSE files[q]]
Remove(files, p) == [q \in (DOMAIN files) \ {p} |-> files[q]]

VARIABLES
    dry_run,         \* args.dry_run
    backup,          \* args.backup
    workers,         \* args.workers
    retries,         \* args.retries
    mainpc,          \* position of main(): gather, submit, drain, done
    candidates,      \* main's list of files with a literal
    futures,         \* files submitted to the pool so far, in order
    queue,           \* the pool's work queue
    pc,              \* per file: where its processing stands or how it ended
    src,             \* per running task: the text read at line 121
    refactored_src,  \* per running task: the accepted response text
    fs,              \* the filesystem
    drained,         \* futures the completion loop has taken
    unhandled,       \* futures whose result() raised in the completion loop
    count,           \* per file: times submitted, posted, persisted
    script,          \* transport: the server's answers, attempt by attempt
    total,           \* transport: retries left in the Retry object
    attempts,        \* transport: attempts made by the call so far
    status,          \* transport: status of the response session.post returned
    callpc,          \* transport: idle, calling, returned, raised, ok, api_error
    java_src,        \* classifier: the text read at line 62
    stripped,        \* classifier: strip_comments(java_src)
    has_literal,     \* classifier: what has_string_literal returned
    lexpc,           \* classifier: edit, stripped, done, unreadable
    root,            \* discovery: the parts of the --root path
    excludes,        \* discovery: the --exclude names
    yielded,         \* discovery: what root.rglob("*.java") produced so far
    java_files       \* discovery: the list collect_java_files builds

cfgVars == <<dry_run, backup, workers, retries>>
mainVars == <<mainpc, candidates, futures, drained, unhandled>>
poolVars == <<queue, pc, src, refactored_src, count>>
transportVars == <<script, total, attempts, status, callpc>>
lexVars == <<java_src, stripped, has_literal, lexpc>>
discVars == <<root, excludes, yielded, java_files>>
scanVars == <<lexVars, discVars>>
vars == <<cfgVars, mainVars, poolVars, fs, transportVars, scanVars>>


(***************************************************************************)
(* The transport: session.post under HTTPAdapter(max_retries=Retry(...)).  *)
(* One answer of the server per attempt: an HTTP status, or Timeout when   *)
(* the attempt got no response within the timeout.                         *)
(***************************************************************************)
Timeout == 0
Answers == status_forcelist \cup {200, 400, 404, Timeout}

\* A retry strategy that lost its status_forcelist: only timeouts are retried.
IsRetryableTimeoutOnly(a) == a = Timeout

\* allowed_methods=["POST"]: a failed attempt of the POST is retried when it
\* timed out or its status is in status_forcelist.
IsRetryable(a) == a = Timeout \/ a \in status_forcelist

\* A retry loop that gives up one failure too late.
AttemptOutcomeOneMore(t, a) ==
    IF ~(a = Timeout \/ a \in status_forcelist) THEN "return"
    ELSE IF t - 1 < -1 THEN "raise"
    ELSE "retry"

\* What one attempt's answer a does to a call that has t retries left
\* (Retry.increment takes one off total and gives up when it falls below 0).
AttemptOutcome(t, a) ==
    IF ~IsRetryable(a) THEN "return"
    ELSE IF t - 1 < 0 THEN "raise"
    ELSE "retry"

\* The server's answer to attempt k; past the end of its script it keeps
\* giving its last answer.
ServerAnswer(sc, k) == IF k <= Len(sc) THEN sc[k] ELSE sc[Len(sc)]

\* session.post with t retries left, from attempt k on, against a server
\* that answers by sc: the response returned or the exception raised, and
\* the number of the last attempt.
RECURSIVE SessionPost(_, _, _)
SessionPost(t, sc, k) ==
    LET a == ServerAnswer(sc, k)
        o == AttemptOutcome(t, a)
    IN  IF o = "return" THEN [kind |-> "response", status |-> a, attempts |-> k]
        ELSE IF o = "raise" THEN [kind |-> "raise", status |-> a, attempts |-> k]
        ELSE SessionPost(t - 1, sc, k + 1)

\* Every way session.post can end when configured with n retries.
Scripts(n) == [1 .. (n + 1) -> Answers]
PostResults(n) ==
    {[kind |-> r.kind, status |-> r.status] :
        r \in {SessionPost(n, sc, 1) : sc \in Scripts(n)}}
PostResultTable == [n \in 0 .. MaxRetries |-> PostResults(n)]

\* resp.raise_for_status() raises for 4xx and 5xx.
RaisesForStatus(code) == code >= 400

(***************************************************************************)
(* Response bodies, by the shape lines 157-163 tell apart.                 *)
(***************************************************************************)
Shapes == {"notjson", "notobject", "nochoices", "badchoice", "nomessage",
           "nocontent"}
Bodies(s) ==
    {[shape |-> sh, content |-> <<>>] : sh \in Shapes}
    \cup {[shape |-> "content", content |-> t] : t \in Rewrites(s) \cup {NonText}}

\* A sanity check that lets a response without choices, message or content
\* through to the write-out.
AfterValidateNoSanity(body) ==
    CASE body.shape = "notjson" -> "raised_json"
      [] body.shape = "notobject" -> "raised_get"
      [] body.shape = "badchoice" -> "raised_check"
      [] OTHER -> IF dry_run THEN "write_new" ELSE "aw_backup"

\* A write-out step that calls atomic_write without its backup part.
AfterValidateSkipBackup(body) ==
    CASE body.shape = "notjson" -> "raised_json"
      [] body.shape = "notobject" -> "raised_get"
      [] body.shape = "badchoice" -> "raised_check"
      [] body.shape \in {"nochoices", "nomessage", "nocontent"} -> "ret_schema_error"
      [] OTHER -> IF dry_run THEN "write_new" ELSE "aw_mkstemp"

\* A write-out step that forgets the dry_run flag.
AfterValidateIgnoringDryRun(body) ==
    CASE body.shape = "notjson" -> "raised_json"
      [] body.shape = "notobject" -> "raised_get"
      [] body.shape = "badchoice" -> "raised_check"
      [] body.shape \in {"nochoices", "nomessage", "nocontent"} -> "ret_schema_error"
      [] OTHER -> "aw_backup"

\* Where refactor_file stands after lines 157-163 on a 2xx response.
AfterValidate(body) ==
    CASE body.shape = "notjson" -> "raised_json"          \* resp.json() raises
      [] body.shape = "notobject" -> "raised_get"         \* data.get raises
      [] body.shape = "badchoice" -> "raised_check"       \* line 160 raises
      [] body.shape \in {"nochoices", "nomessage", "nocontent"} -> "ret_schema_error"
      [] OTHER -> IF dry_run THEN "write_new" ELSE "aw_backup"

Returned == {"ret_read_error", "ret_api_error", "ret_schema_error", "ret_ok"}
Raised == {"raised_post", "raised_json", "raised_get", "raised_check",
           "raised_write_text", "raised_copy2", "raised_mkstemp",
           "raised_write", "raised_replace"}
Running == {"read", "post", "write_new", "aw_backup", "aw_mkstemp", "aw_write",
            "aw_replace"}

\* The future of f is done: its task returned or raised.
FutureDone(f) == pc[f] \in Returned \cup Raised
InFlight == {f \in Files : pc[f] \in Running}

Bump(f, what) == [count EXCEPT ![f][what] = @ + 1]


(***************************************************************************)
(* main(), lines 238-244: classify the discovered files in order.          *)
(***************************************************************************)
\* has_string_literal(p): False when p cannot be read, else whether the
\* comment-stripped text holds a literal.
Classify(f) ==
    /\ mainpc = "gather"
    /\ \E i \in 1 .. Len(all_java) :
          /\ f = all_java[i]
          /\ pc[f] = "discovered"
          /\ \A j \in 1 .. (i - 1) : pc[all_java[j]] # "discovered"
    /\ \E r \in {"unreadable", "no_literal", "literal"} :
          IF r = "literal"
          THEN /\ candidates' = Append(candidates, f)
               /\ pc' = [pc EXCEPT ![f] = "candidate"]
          ELSE /\ candidates' = candidates
               /\ pc' = [pc EXCEPT ![f] = "skipped"]
    /\ UNCHANGED <<scanVars, cfgVars, mainpc, futures, drained, unhandled, queue, src,
                   refactored_src, count, fs, transportVars>>

\* Lines 240-255: every file is classified; log the counts, build the worker.
LogFound ==
    /\ mainpc = "gather"
    /\ \A f \in Files : pc[f] # "discovered"
    /\ mainpc' = "submit"
    /\ UNCHANGED <<scanVars, cfgVars, candidates, futures, drained, unhandled, poolVars,
                   fs, transportVars>>

(***************************************************************************)
(* main(), lines 256-257: the pool and the submissions.                    *)
(***************************************************************************)
\* A submission loop that keeps submitting the first candidate.
NextToSubmitFirst == candidates[1]

\* The candidate the dict comprehension of line 257 submits next.
NextToSubmit == candidates[Len(futures) + 1]

Submit ==
    /\ mainpc = "submit"
    /\ Len(futures) < Len(candidates)
    /\ LET f == NextToSubmit
       IN  /\ futures' = Append(futures, f)
           /\ queue' = Append(queue, f)
           /\ pc' = [pc EXCEPT ![f] = "queued"]
           /\ count' = Bump(f, "submit")
    /\ UNCHANGED <<scanVars, cfgVars, mainpc, candidates, drained, unhandled, src,
                   refactored_src, fs, transportVars>>

\* Line 258: all candidates are submitted; main enters as_completed.
StartDrain ==
    /\ mainpc = "submit"
    /\ Len(futures) = Len(candidates)
    /\ mainpc' = "drain"
    /\ UNCHANGED <<scanVars, cfgVars, candidates, futures, drained, unhandled, poolVars,
                   fs, transportVars>>

\* A pool that keeps one of its threads back.
PoolOffByOne == Cardinality(InFlight) < workers - 1

\* A pool that starts a thread for every queued task.
PoolUnbounded == TRUE

\* ThreadPoolExecutor(max_workers=args.workers): a queued task starts only
\* on one of at most `workers` threads, each running one task at a time.
PoolHasFreeThread == Cardinality(InFlight) < workers

Start(f) ==
    /\ queue # <<>>
    /\ f = Head(queue)
    /\ pc[f] = "queued"
    /\ PoolHasFreeThread
    /\ queue' = Tail(queue)
    /\ pc' = [pc EXCEPT ![f] = "read"]
    /\ UNCHANGED <<scanVars, cfgVars, mainVars, src, refactored_src, count, fs,
                   transportVars>>


(***************************************************************************)
(* refactor_file, lines 110-171: one task per candidate.                   *)
(***************************************************************************)
\* Lines 120-124: read the source; a read error is logged and the task
\* returns.
ReadSrc(f) ==
    /\ pc[f] = "read"
    /\ \/ /\ src' = [src EXCEPT ![f] = fs[Target(f)]]
          /\ pc' = [pc EXCEPT ![f] = "post"]
       \/ /\ src' = src
          /\ pc' = [pc EXCEPT ![f] = "ret_read_error"]
    /\ UNCHANGED <<scanVars, cfgVars, mainVars, queue, refactored_src, count, fs,
                   transportVars>>

\* Lines 150-163: the call, raise_for_status, resp.json() and the sanity
\* check.  session.post raising is not caught here; an error status and a
\* response without choices/message/content are logged and the task returns.
Respond(f) ==
    /\ pc[f] = "post"
    /\ count' = Bump(f, "post")
    /\ \E r \in PostResultTable[retries] :
          IF r.kind = "raise"
          THEN /\ pc' = [pc EXCEPT ![f] = "raised_post"]
               /\ refactored_src' = refactored_src
          ELSE IF RaisesForStatus(r.status)
          THEN /\ pc' = [pc EXCEPT ![f] = "ret_api_error"]
               /\ refactored_src' = refactored_src
          ELSE \E body \in Bodies(src[f]) :
                  /\ pc' = [pc EXCEPT ![f] = AfterValidate(body)]
                  /\ refactored_src' =
                        IF body.shape = "content"
                        THEN [refactored_src EXCEPT ![f] = body.content]
                        ELSE refactored_src
    /\ UNCHANGED <<scanVars, cfgVars, mainVars, queue, src, fs, transportVars>>

\* Line 167: where a dry run writes the proposed content.
DryRunOutput(f) == New(f)

\* Lines 166-169: outp.write_text(refactored_src).  write_text refuses a
\* value that is not a str before it opens the file; a failing write may
\* leave the output missing or cut short.
WriteNew(f) ==
    /\ pc[f] = "write_new"
    /\ LET data == refactored_src[f]
           outp == DryRunOutput(f)
       IN  IF data = NonText
           THEN /\ pc' = [pc EXCEPT ![f] = "raised_write_text"]
                /\ UNCHANGED <<fs, count>>
           ELSE \/ /\ fs' = Put(fs, outp, data)
                   /\ pc' = [pc EXCEPT ![f] = "ret_ok"]
                   /\ count' = Bump(f, "persist")
                \/ /\ fs' \in {fs} \cup {Put(fs, outp, part) : part \in Prefixes(data)}
                   /\ pc' = [pc EXCEPT ![f] = "raised_write_text"]
                   /\ count' = count
    /\ UNCHANGED <<scanVars, cfgVars, mainVars, queue, src, refactored_src, transportVars>>

(***************************************************************************)
(* atomic_write, lines 95-107, called from line 171.                       *)
(***************************************************************************)
\* Lines 97-100: with --backup and an existing target, shutil.copy2 to the
\* .bak sibling.  Nothing catches a failure of the copy.
AwBackup(f) ==
    /\ pc[f] = "aw_backup"
    /\ IF backup /\ Target(f) \in DOMAIN fs
       THEN \/ /\ fs' = Put(fs, Bak(f), fs[Target(f)])
               /\ pc' = [pc EXCEPT ![f] = "aw_mkstemp"]
            \/ /\ fs' \in {fs} \cup {Put(fs, Bak(f), part) :
                                        part \in Prefixes(fs[Target(f)])}
               /\ pc' = [pc EXCEPT ![f] = "raised_copy2"]
       ELSE /\ fs' = fs
            /\ pc' = [pc EXCEPT ![f] = "aw_mkstemp"]
    /\ UNCHANGED <<scanVars, cfgVars, mainVars, queue, src, refactored_src, count,
                   transportVars>>

\* A writer that opens the target itself for writing.
TempForInPlace(f) == Target(f)

\* Line 103: the file the data is written to before the rename.
TempFor(f) == Tmp(f)

\* Line 103: tempfile.mkstemp creates an empty file next to the target.
AwMkstemp(f) ==
    /\ pc[f] = "aw_mkstemp"
    /\ \/ /\ fs' = Put(fs, TempFor(f), <<>>)
          /\ pc' = [pc EXCEPT ![f] = "aw_write"]
       \/ /\ fs' = fs
          /\ pc' = [pc EXCEPT ![f] = "raised_mkstemp"]
    /\ UNCHANGED <<scanVars, cfgVars, mainVars, queue, src, refactored_src, count,
                   transportVars>>

\* Lines 104-105: write the data to the temp file and close it.  f.write
\* raises on a value that is not a str; a failing write leaves a prefix.
AwWrite(f) ==
    /\ pc[f] = "aw_write"
    /\ LET data == refactored_src[f]
       IN  IF data = NonText
           THEN /\ fs' = fs
                /\ pc' = [pc EXCEPT ![f] = "raised_write"]
           ELSE \/ /\ fs' = Put(fs, TempFor(f), data)
                   /\ pc' = [pc EXCEPT ![f] = "aw_replace"]
                \/ /\ fs' \in {Put(fs, TempFor(f), part) : part \in Prefixes(data)}
                   /\ pc' = [pc EXCEPT ![f] = "raised_write"]
    /\ UNCHANGED <<scanVars, cfgVars, mainVars, queue, src, refactored_src, count,
                   transportVars>>

\* os.replace with its arguments the wrong way round.
ReplacedSwapped(files, f) ==
    Put(Remove(files, Target(f)), Tmp(f), files[Target(f)])

\* Line 106: the filesystem after os.replace(tmp_path, path) succeeded.
Replaced(files, f) == Put(Remove(files, TempFor(f)), Target(f), files[TempFor(f)])

\* Lines 106-107: rename the temp file onto the target.
AwReplace(f) ==
    /\ pc[f] = "aw_replace"
    /\ \/ /\ fs' = Replaced(fs, f)
          /\ pc' = [pc EXCEPT ![f] = "ret_ok"]
          /\ count' = Bump(f, "persist")
       \/ /\ fs' = fs
          /\ pc' = [pc EXCEPT ![f] = "raised_replace"]
          /\ count' = count
    /\ UNCHANGED <<scanVars, cfgVars, mainVars, queue, src, refactored_src, transportVars>>

(***************************************************************************)
(* main(), lines 258-263: the completion loop.                             *)
(***************************************************************************)
\* A completion loop without the try/except around fut.result().
AfterResultUncaught(f) == IF pc[f] \in Raised THEN "crashed" ELSE "drain"

\* Where main stands after lines 259-263 handled the future of f: the
\* except clause turns a raising result() into a log line.
AfterResult(f) == "drain"

Drain(f) ==
    /\ mainpc = "drain"
    /\ \E i \in 1 .. Len(futures) : futures[i] = f
    /\ f \notin drained
    /\ FutureDone(f)
    /\ drained' = drained \cup {f}
    /\ unhandled' = IF pc[f] \in Raised THEN unhandled \cup {f} ELSE unhandled
    /\ mainpc' = AfterResult(f)
    /\ UNCHANGED <<scanVars, cfgVars, candidates, futures, poolVars, fs, transportVars>>

\* as_completed is exhausted; the with block shuts the pool down and main
\* returns.
Return ==
    /\ mainpc = "drain"
    /\ \A i \in 1 .. Len(futures) : futures[i] \in drained
    /\ mainpc' = "done"
    /\ UNCHANGED <<scanVars, cfgVars, candidates, futures, drained, unhandled, poolVars,
                   fs, transportVars>>

(***************************************************************************)
(* The run of main().                                                      *)
(***************************************************************************)
\* The classifier and the discovery walk before they are used.
LexIdle ==
    /\ java_src = <<>>
    /\ stripped = <<>>
    /\ has_literal = FALSE
    /\ lexpc = "edit"

DiscoveryIdle ==
    /\ root = <<>>
    /\ excludes = {}
    /\ yielded = {}
    /\ java_files = <<>>

Init ==
    /\ dry_run \in BOOLEAN
    /\ backup \in BOOLEAN
    /\ workers \in 1 .. MaxWorkers
    /\ retries = DefaultRetries
    /\ mainpc = "gather"
    /\ candidates = <<>>
    /\ futures = <<>>
    /\ queue = <<>>
    /\ pc = [f \in Files |-> "discovered"]
    /\ src = [f \in Files |-> <<>>]
    /\ refactored_src = [f \in Files |-> <<>>]
    /\ fs = [p \in {Target(f) : f \in Files} |-> Orig(p[1])]
    /\ drained = {}
    /\ unhandled = {}
    /\ count = [f \in Files |-> [submit |-> 0, post |-> 0, persist |-> 0]]
    /\ script = <<>>
    /\ total = 0
    /\ attempts = 0
    /\ status = 0
    /\ callpc = "idle"
    /\ LexIdle
    /\ DiscoveryIdle

Next ==
    \/ \E f \in Files : Classify(f)
    \/ LogFound
    \/ Submit
    \/ StartDrain
    \/ \E f \in Files : Start(f)
    \/ \E f \in Files : ReadSrc(f)
    \/ \E f \in Files : Respond(f)
    \/ \E f \in Files : WriteNew(f)
    \/ \E f \in Files : AwBackup(f)
    \/ \E f \in Files : AwMkstemp(f)
    \/ \E f \in Files : AwWrite(f)
    \/ \E f \in Files : AwReplace(f)
    \/ \E f \in Files : Drain(f)
    \/ Return

Spec == Init /\ [][Next]_vars


\* The steps of the main thread, and the steps of the task of file f.
MainStep ==
    \/ \E f \in Files : Classify(f)
    \/ LogFound
    \/ Submit
    \/ StartDrain
    \/ \E f \in Files : Drain(f)
    \/ Return
Task(f) ==
    \/ Start(f)
    \/ ReadSrc(f)
    \/ Respond(f)
    \/ WriteNew(f)
    \/ AwBackup(f)
    \/ AwMkstemp(f)
    \/ AwWrite(f)
    \/ AwReplace(f)

\* The run under fair scheduling: the main thread keeps running, every pool
\* thread keeps running its task, and every remote call and every file
\* operation ends (the call is bounded by the timeout and the retries).
FairSpec == Spec /\ WF_vars(MainStep) /\ \A f \in Files : WF_vars(Task(f))

(***************************************************************************)
(* One session.post call, attempt by attempt (lines 79-92 and 150-155).    *)
(***************************************************************************)
\* Line 150: the call starts with the Retry object of the session; the
\* server's answers to the attempts are its script.
TCall ==
    /\ callpc = "idle"
    /\ \E sc \in Scripts(retries) : script' = sc
    /\ total' = retries
    /\ attempts' = 0
    /\ callpc' = "calling"
    /\ UNCHANGED <<scanVars, cfgVars, mainVars, poolVars, fs, status>>

\* One attempt: the adapter sends the request and the Retry object decides
\* on the answer.
TAttempt ==
    /\ callpc = "calling"
    /\ LET k == attempts + 1
           a == ServerAnswer(script, k)
           o == AttemptOutcome(total, a)
       IN  /\ attempts' = k
           /\ IF o = "return"
              THEN /\ status' = a
                   /\ callpc' = "returned"
                   /\ total' = total
              ELSE IF o = "raise"
              THEN /\ callpc' = "raised"
                   /\ UNCHANGED <<status, total>>
              ELSE /\ total' = total - 1
                   /\ UNCHANGED <<status, callpc>>
    /\ UNCHANGED <<scanVars, cfgVars, mainVars, poolVars, fs, script>>

\* Lines 151-155: raise_for_status on the response the call returned.
TRaiseForStatus ==
    /\ callpc = "returned"
    /\ callpc' = IF RaisesForStatus(status) THEN "api_error" ELSE "ok"
    /\ UNCHANGED <<scanVars, cfgVars, mainVars, poolVars, fs, script, total, attempts,
                   status>>

InitTransport ==
    /\ dry_run = FALSE
    /\ backup = FALSE
    /\ workers = 1
    /\ retries \in 0 .. MaxRetries
    /\ mainpc = "gather"
    /\ candidates = <<>>
    /\ futures = <<>>
    /\ queue = <<>>
    /\ pc = [f \in Files |-> "discovered"]
    /\ src = [f \in Files |-> <<>>]
    /\ refactored_src = [f \in Files |-> <<>>]
    /\ fs = [p \in {Target(f) : f \in Files} |-> Orig(p[1])]
    /\ drained = {}
    /\ unhandled = {}
    /\ count = [f \in Files |-> [submit |-> 0, post |-> 0, persist |-> 0]]
    /\ script = <<>>
    /\ total = 0
    /\ attempts = 0
    /\ status = 0
    /\ callpc = "idle"
    /\ LexIdle
    /\ DiscoveryIdle

NextTransport == TCall \/ TAttempt \/ TRaiseForStatus

SpecTransport == InitTransport /\ [][NextTransport]_vars

(***************************************************************************)
(* The classifier: strip_comments and has_string_literal (lines 30-66).    *)
(* A text is a sequence of characters: "q" the double quote, "b" the       *)
(* backslash, "s" the slash, "x" the star, "n" the newline, "a" any other. *)
(***************************************************************************)
Chars == {"q", "b", "s", "x", "n", "a"}
Markers == {"q", "b", "s", "x"}

\* Every text of up to MaxLen characters, and every text of up to
\* MaxMarkLen characters that holds nothing but quotes, backslashes,
\* slashes and stars.
Texts ==
    UNION {[1 .. n -> Chars] : n \in 0 .. MaxLen}
        \cup UNION {[1 .. n -> Markers] : n \in (MaxLen + 1) .. MaxMarkLen}

IsPair(t, i, a, b) == i + 1 <= Len(t) /\ t[i] = a /\ t[i + 1] = b

\* Line 32, "//[^\n]*\n" once "//" has matched: the index of the first
\* newline at or after j, 0 when the text has none.
RECURSIVE FirstNewline(_, _)
FirstNewline(t, j) ==
    IF j > Len(t) THEN 0
    ELSE IF t[j] = "n" THEN j
    ELSE FirstNewline(t, j + 1)

\* Line 33, "/\*[^*]*\*+(?:[^/*][^*]*\*+)*/" once "/*" has matched: st is
\* "A" while the last character was not a star and "B" after a run of
\* stars; the index of the closing slash, 0 when the text ends first.
RECURSIVE BlockScan(_, _, _)
BlockScan(t, j, st) ==
    IF j > Len(t) THEN 0
    ELSE IF st = "A"
    THEN BlockScan(t, j + 1, IF t[j] = "x" THEN "B" ELSE "A")
    ELSE IF t[j] = "s" THEN j
    ELSE BlockScan(t, j + 1, IF t[j] = "x" THEN "B" ELSE "A")

\* Lines 34 and 40, '"([^"\\]|\\.)*"' once the opening quote has matched:
\* the index of the closing quote, 0 when there is none. The dot matches a
\* newline only under re.DOTALL, which line 36 sets and line 40 does not.
RECURSIVE LitScan(_, _, _)
LitScan(t, j, dotall) ==
    IF j > Len(t) THEN 0
    ELSE IF t[j] = "q" THEN j
    ELSE IF t[j] = "b"
    THEN IF j + 1 > Len(t) \/ (~dotall /\ t[j + 1] = "n")
         THEN 0
         ELSE LitScan(t, j + 2, dotall)
    ELSE LitScan(t, j + 1, dotall)

\* _COMMENT_RE tried at index i: its alternatives in their order.
MatchAt(t, i) ==
    LET line == IF IsPair(t, i, "s", "s") THEN FirstNewline(t, i + 2) ELSE 0
        block == IF IsPair(t, i, "s", "x") THEN BlockScan(t, i + 2, "A") ELSE 0
        lit == IF t[i] = "q" THEN LitScan(t, i + 1, TRUE) ELSE 0
    IN  IF line # 0 THEN [kind |-> "line", end |-> line]
        ELSE IF block # 0 THEN [kind |-> "block", end |-> block]
        ELSE IF lit # 0 THEN [kind |-> "literal", end |-> lit]
        ELSE [kind |-> "none", end |-> i]

\* Lines 47-52, _replacer: a literal is kept, a line comment leaves its
\* newline, a block comment leaves nothing.
Replacer(t, i, m) ==
    IF m.kind = "literal" THEN SubSeq(t, i, m.end)
    ELSE IF m.kind = "line" THEN <<"n">>
    ELSE <<>>

\* Line 54, _COMMENT_RE.sub from index i on: a character no alternative
\* matches at is copied and the scan moves one character on.
RECURSIVE Sub(_, _)
Sub(t, i) ==
    IF i > Len(t) THEN <<>>
    ELSE LET m == MatchAt(t, i)
         IN  IF m.kind = "none"
             THEN <<t[i]>> \o Sub(t, i + 1)
             ELSE Replacer(t, i, m) \o Sub(t, m.end + 1)

strip_comments(java) == Sub(java, 1)

\* Line 66, _STRING_LITERAL_RE.search.
SearchLiteral(t) ==
    \E i \in 1 .. Len(t) : t[i] = "q" /\ LitScan(t, i + 1, FALSE) # 0

\* The kinds of the regions the scan of line 54 matches from index i on.
RECURSIVE ScanKinds(_, _)
ScanKinds(t, i) ==
    IF i > Len(t) THEN {}
    ELSE LET m == MatchAt(t, i)
         IN  IF m.kind = "none"
             THEN ScanKinds(t, i + 1)
             ELSE {m.kind} \cup ScanKinds(t, m.end + 1)

\* The run of main() and the transport, left where they start.
Frozen ==
    /\ dry_run = FALSE
    /\ backup = FALSE
    /\ workers = 1
    /\ retries = DefaultRetries
    /\ mainpc = "gather"
    /\ candidates = <<>>
    /\ futures = <<>>
    /\ queue = <<>>
    /\ pc = [f \in Files |-> "discovered"]
    /\ src = [f \in Files |-> <<>>]
    /\ refactored_src = [f \in Files |-> <<>>]
    /\ fs = [p \in {Target(f) : f \in Files} |-> Orig(p[1])]
    /\ drained = {}
    /\ unhandled = {}
    /\ count = [f \in Files |-> [submit |-> 0, post |-> 0, persist |-> 0]]
    /\ script = <<>>
    /\ total = 0
    /\ attempts = 0
    /\ status = 0
    /\ callpc = "idle"

\* Lines 61-64: reading the file fails and has_string_literal returns False.
ReadFails ==
    /\ lexpc = "edit"
    /\ has_literal' = FALSE
    /\ lexpc' = "unreadable"
    /\ UNCHANGED <<cfgVars, mainVars, poolVars, fs, transportVars, discVars,
                   java_src, stripped>>

\* Lines 62 and 65: the text is read and its comments are stripped.
StripComments ==
    /\ lexpc = "edit"
    /\ stripped' = strip_comments(java_src)
    /\ lexpc' = "stripped"
    /\ UNCHANGED <<cfgVars, mainVars, poolVars, fs, transportVars, discVars,
                   java_src, has_literal>>

\* Line 66: the stripped text is searched for a literal.
ReturnSearch ==
    /\ lexpc = "stripped"
    /\ has_literal' = SearchLiteral(stripped)
    /\ lexpc' = "done"
    /\ UNCHANGED <<cfgVars, mainVars, poolVars, fs, transportVars, discVars,
                   java_src, stripped>>

InitLex ==
    /\ Frozen
    /\ DiscoveryIdle
    /\ java_src \in Texts
    /\ stripped = <<>>
    /\ has_literal = FALSE
    /\ lexpc = "edit"

NextLex == ReadFails \/ StripComments \/ ReturnSearch

SpecLex == InitLex /\ [][NextLex]_vars

(***************************************************************************)
(* Discovery: collect_java_files (lines 69-76). A name is a pair of its    *)
(* stem and its extension; a path is the sequence of its parts.            *)
(***************************************************************************)
DirNames == {<<"src", "">>, <<"build", "">>}
Leaves == {[name |-> <<"A", "java">>, isdir |-> FALSE],
           [name |-> <<"gen", "java">>, isdir |-> TRUE],
           [name |-> <<"notes", "txt">>, isdir |-> FALSE]}

DirPaths(n) == UNION {[1 .. k -> DirNames] : k \in 0 .. n}

\* The entries a tree below root may hold: the directories from root down
\* to the entry, and the entry itself.
Tree == {[dirs |-> d, leaf |-> l] : d \in DirPaths(MaxDepth), l \in Leaves}

\* The --root paths and the --exclude lists explored.
Roots == UNION {[1 .. k -> DirNames] : k \in 1 .. MaxRootDepth}
ExcludeSets == SUBSET {<<"build", "">>, <<"A", "java">>}

\* Line 72: the pattern "*.java" against the name of an entry.
Matches(name) == name[2] = "java"

\* Line 73, p.parts: the parts of root, then the parts below it.
Parts(r, e) == r \o e.dirs \o <<e.leaf.name>>

\* Line 73: any(part in excludes for part in p.parts).
Pruned(r, ex, e) == \E i \in 1 .. Len(Parts(r, e)) : Parts(r, e)[i] \in ex

\* Lines 72-74: rglob yields an entry and the loop skips it.
RglobSkip(e) ==
    /\ e \in Tree \ yielded
    /\ Matches(e.leaf.name)
    /\ Pruned(root, excludes, e)
    /\ yielded' = yielded \cup {e}
    /\ UNCHANGED <<cfgVars, mainVars, poolVars, fs, transportVars, lexVars,
                   root, excludes, java_files>>

\* Lines 72, 73 and 75: rglob yields an entry and the loop appends it.
RglobAppend(e) ==
    /\ e \in Tree \ yielded
    /\ Matches(e.leaf.name)
    /\ ~Pruned(root, excludes, e)
    /\ yielded' = yielded \cup {e}
    /\ java_files' = Append(java_files, Parts(root, e))
    /\ UNCHANGED <<cfgVars, mainVars, poolVars, fs, transportVars, lexVars,
                   root, excludes>>

InitDiscover ==
    /\ Frozen
    /\ LexIdle
    /\ root \in Roots
    /\ excludes \in ExcludeSets
    /\ yielded = {}
    /\ java_files = <<>>

NextDiscover ==
    \/ \E e \in Tree : RglobSkip(e)
    \/ \E e \in Tree : RglobAppend(e)

SpecDiscover == InitDiscover /\ [][NextDiscover]_vars


(***************************************************************************)
(* Properties.                                                             *)
(***************************************************************************)
\* What a reader of path p sees is exactly data.
Shows(p, data) == p \in DOMAIN fs /\ fs[p] = data

CandidateSet == {candidates[i] : i \in 1 .. Len(candidates)}

\* The path a successful task leaves its response text at.
Output(f) == IF dry_run THEN New(f) ELSE Target(f)

\* C1: a failure in one file's processing never aborts the run nor touches
\* another file: main never leaves its normal course, when it is done every
\* candidate's task has ended and been drained, every task that ended
\* normally after the write left exactly the text answered for its own
\* source at its output path, and every other original is as it was.
Isolation ==
    /\ mainpc \in {"gather", "submit", "drain", "done"}
    /\ mainpc = "done" => \A f \in CandidateSet : FutureDone(f) /\ f \in drained
    /\ \A f \in Files :
          /\ pc[f] = "ret_ok" =>
                /\ refactored_src[f] \in Rewrites(Orig(f))
                /\ Shows(Output(f), refactored_src[f])
          /\ (pc[f] # "ret_ok" \/ dry_run) => Shows(Target(f), Orig(f))

\* C1 witness: the run is done, the task submitted first raised and a task
\* submitted after it persisted its own response.
IsolationWitness ==
    /\ mainpc = "done"
    /\ Len(futures) >= 2
    /\ pc[futures[1]] \in Raised
    /\ pc[futures[2]] = "ret_ok"
    /\ Shows(Output(futures[2]), refactored_src[futures[2]])

\* C2: when the run returns, the coordinator's record splits the candidates
\* into succeeded and failed, and a file is recorded as failed exactly when
\* its processing ended in a read error, transport failure, schema error or
\* persistence error.  The only record lines 258-263 keep of a failure is
\* the except branch taken for a future whose result() raised.
RunSummaryClaim ==
    mainpc = "done" =>
        LET failed == unhandled
            succeeded == drained \ unhandled
        IN  /\ Cardinality(succeeded) + Cardinality(failed) = Len(candidates)
            /\ \A f \in CandidateSet :
                  f \in failed <=>
                      pc[f] \in Raised \cup {"ret_read_error", "ret_api_error",
                                             "ret_schema_error"}

\* C3: in a dry run every original keeps its content in every state, and
\* the only paths that exist besides the originals are .new siblings.
DryRunFrame ==
    dry_run =>
        /\ \A f \in Files : Shows(Target(f), Orig(f))
        /\ DOMAIN fs \subseteq {Target(f) : f \in Files} \cup {New(f) : f \in Files}

\* C3 witness: a dry run in which a task wrote its .new sibling.
DryRunWitness ==
    /\ dry_run
    /\ \E f \in Files : pc[f] = "ret_ok" /\ Shows(New(f), refactored_src[f])

\* C4: after atomic_write returned, the target holds exactly the data; after
\* it failed in mkstemp, in the write or in the rename, the target holds what
\* it held before the call.
AtomicReplaceOutcome ==
    ~dry_run =>
        \A f \in Files :
            /\ pc[f] = "ret_ok" => Shows(Target(f), refactored_src[f])
            /\ pc[f] \in {"raised_mkstemp", "raised_write", "raised_replace"} =>
                  Shows(Target(f), Orig(f))

\* C4 witness: one atomic_write returned and another failed in the rename.
AtomicReplaceWitness ==
    /\ ~dry_run
    /\ \E f, g \in Files : pc[f] = "ret_ok" /\ pc[g] = "raised_replace"

\* C5: outside a dry run, in every state the target shows either its whole
\* old content or, once the rename has happened, the whole new content; and
\* the rename is the only step that changes what the target shows.
AtomicVisibility ==
    /\ [](~dry_run =>
            \A f \in Files :
                \/ Shows(Target(f), Orig(f))
                \/ pc[f] = "ret_ok" /\ Shows(Target(f), refactored_src[f]))
    /\ [][\A f \in Files :
            (Target(f) \notin DOMAIN fs' \/ fs'[Target(f)] # fs[Target(f)]) =>
                pc[f] = "aw_replace" /\ pc'[f] = "ret_ok"]_vars

\* C5 witness: a temp file holds part of the data while its target still
\* shows the old content.
AtomicVisibilityWitness ==
    \E f \in Files :
        /\ pc[f] = "raised_write"
        /\ Tmp(f) \in DOMAIN fs
        /\ fs[Tmp(f)] \in Prefixes(refactored_src[f]) \ {<<>>}
        /\ Shows(Target(f), Orig(f))

\* C6: when the copy to the .bak sibling fails, the replace still proceeds:
\* the task whose backup failed ends with the new content in the target and
\* its future does not fail.
BackupFailureNotFatal ==
    \A f \in Files :
        (pc[f] = "raised_copy2" /\ f \in drained) =>
            /\ Shows(Target(f), refactored_src[f])
            /\ f \notin unhandled

\* The order of the positions of a file's processing, and its final ones.
Rank(p) ==
    CASE p = "discovered" -> 0
      [] p = "candidate" -> 1
      [] p = "queued" -> 2
      [] p = "read" -> 3
      [] p = "post" -> 4
      [] p \in {"write_new", "aw_backup"} -> 5
      [] p = "aw_mkstemp" -> 6
      [] p = "aw_write" -> 7
      [] p = "aw_replace" -> 8
      [] OTHER -> 9
Terminal == {"skipped"} \cup Returned \cup Raised

\* C9: each file moves only forward through its states and stays in the
\* terminal state it reaches; it is submitted, posted and persisted at most
\* once, posted only if classified a candidate and submitted, persisted only
\* if posted; and when the run is done every file is in a terminal state.
PerFileStateMachine ==
    /\ [](\A f \in Files :
            /\ count[f].submit <= 1 /\ count[f].post <= 1 /\ count[f].persist <= 1
            /\ count[f].post = 1 => f \in CandidateSet /\ count[f].submit = 1
            /\ count[f].persist = 1 <=> pc[f] = "ret_ok"
            /\ count[f].persist = 1 => count[f].post = 1
            /\ pc[f] = "skipped" => f \notin CandidateSet /\ count[f].submit = 0
            /\ mainpc = "done" => pc[f] \in Terminal)
    /\ [][\A f \in Files :
            /\ Rank(pc'[f]) >= Rank(pc[f])
            /\ pc[f] \in Terminal => pc'[f] = pc[f]]_vars

\* C9 witness: the run is done with one file persisted and another failed
\* after its call.
PerFileWitness ==
    /\ mainpc = "done"
    /\ \E f, g \in Files :
          /\ pc[f] = "ret_ok" /\ count[f] = [submit |-> 1, post |-> 1, persist |-> 1]
          /\ pc[g] = "ret_schema_error" /\ count[g].post = 1

\* C10: in every state the files whose processing is in flight are at most
\* --workers many.
BoundedParallelism == Cardinality(InFlight) <= workers

\* C10 witness: every thread of the pool is busy and a candidate waits in
\* the queue.
BoundedParallelismWitness ==
    /\ Cardinality(InFlight) = workers
    /\ queue # <<>>

\* C7: with --retries 3, a server that answers a status of the retry list
\* twice and then 200 gets exactly 3 attempts and the call succeeds; a server
\* that always answers a client error outside the retry list gets exactly 1
\* attempt and the call ends as an API error.
RetryScenarios ==
    (retries = 3 /\ callpc \in {"ok", "api_error", "raised"}) =>
        /\ (/\ script[1] \in status_forcelist
            /\ script[2] \in status_forcelist
            /\ script[3] = 200) => attempts = 3 /\ callpc = "ok"
        /\ (\E c \in {400, 404} : \A k \in DOMAIN script : script[k] = c) =>
              attempts = 1 /\ callpc = "api_error"

\* C7 witness: the call with 3 retries succeeded on its third attempt after
\* two statuses of the retry list.
RetryScenariosWitness ==
    /\ retries = 3
    /\ callpc = "ok"
    /\ attempts = 3
    /\ script[1] \in status_forcelist /\ script[2] \in status_forcelist

\* C8 as stated: the attempts of one call never exceed the --retries value.
AttemptCapClaimed == attempts <= retries

\* C8 amended: the attempts of one call never exceed the --retries value
\* plus one, and a call raises only after exactly that many attempts, on an
\* answer that is a timeout or a status of the retry list.
AttemptCap ==
    /\ attempts <= retries + 1
    /\ callpc = "raised" =>
          /\ attempts = retries + 1
          /\ \A k \in 1 .. attempts : IsRetryable(ServerAnswer(script, k))

\* C8 witness: a call with at least one retry configured raised after its
\* last allowed attempt.
AttemptCapWitness ==
    /\ retries >= 1
    /\ callpc = "raised"
    /\ attempts = retries + 1


\* How far the run is from its end: the positions the files still have to
\* pass, the completions still to drain and the steps main still has to take.
RECURSIVE Remaining(_)
Remaining(n) == IF n = 0 THEN 0 ELSE (9 - Rank(pc[n])) + Remaining(n - 1)
MainRank ==
    CASE mainpc = "gather" -> 0
      [] mainpc = "submit" -> 1
      [] mainpc = "drain" -> 2
      [] OTHER -> 3
Measure == Remaining(NumFiles) + (NumFiles - Cardinality(drained)) + (3 - MainRank)

\* C11: the run always terminates under fair scheduling, and only after
\* every completion is drained: every step brings the run nearer to its end,
\* in every state but the final one some thread can take a step, and main is
\* done only when the task of every candidate has ended and its completion
\* has been drained, whichever tasks failed.
Completion ==
    /\ [][Measure' < Measure /\ Measure' >= 0]_vars
    /\ [](mainpc = "done" \/ ENABLED Next)
    /\ [](mainpc = "done" =>
            \A f \in CandidateSet : FutureDone(f) /\ f \in drained)

\* C11 witness: the run is done, every candidate was drained and some of
\* them failed in different ways.
CompletionWitness ==
    /\ mainpc = "done"
    /\ Len(candidates) = NumFiles
    /\ drained = CandidateSet
    /\ \E f, g \in Files : pc[f] \in Raised /\ pc[g] = "ret_api_error"


\* The task of f got a response that lines 157-163 or the write-out do not
\* accept: not JSON, not an object, a first choice that cannot be searched,
\* no choices, no message, no content, or a content that is not text.
Rejected(f) ==
    \/ pc[f] \in {"raised_json", "raised_get", "raised_check", "ret_schema_error"}
    \/ refactored_src[f] = NonText /\ FutureDone(f)

\* C12: a file is persisted only with a text taken from the first choice of
\* its response; a response of any other shape ends the task as a failure of
\* that file alone, with the original unchanged and nothing persisted, and
\* main goes on to its end.
ResponseValidation ==
    /\ mainpc \in {"gather", "submit", "drain", "done"}
    /\ \A f \in Files :
          /\ pc[f] = "ret_ok" =>
                /\ refactored_src[f] \in Rewrites(src[f])
                /\ Shows(Output(f), refactored_src[f])
          /\ Rejected(f) =>
                /\ pc[f] \in (Returned \cup Raised) \ {"ret_ok"}
                /\ Shows(Target(f), Orig(f))
                /\ New(f) \notin DOMAIN fs
                /\ count[f].persist = 0

\* C12 witness: the run is done; one response had no usable choice, one had
\* a content that is not text, and both originals are unchanged.
ResponseValidationWitness ==
    /\ mainpc = "done"
    /\ \E f, g \in Files :
          /\ pc[f] = "ret_schema_error"
          /\ refactored_src[g] = NonText /\ pc[g] \in Raised
          /\ Shows(Target(f), Orig(f)) /\ Shows(Target(g), Orig(g))

\* C13: no error inside a file's processing reaches the coordinator: every
\* future ends by a normal return, and result() never raises in the
\* completion loop.
WorkerBoundary ==
    /\ \A f \in Files : FutureDone(f) => pc[f] \in Returned
    /\ unhandled = {}

\* The paths the task of f is writing at its current position.
Writing(f) ==
    CASE pc[f] = "write_new" -> {DryRunOutput(f)}
      [] pc[f] = "aw_backup" -> {Bak(f)}
      [] pc[f] \in {"aw_mkstemp", "aw_write"} -> {TempFor(f)}
      [] pc[f] = "aw_replace" -> {TempFor(f), Target(f)}
      [] OTHER -> {}

\* C17: no two tasks ever write the same path at the same time; the
\* candidates are pairwise distinct and each is submitted to one task.
NoWriteRace ==
    /\ \A i, j \in 1 .. Len(candidates) : candidates[i] = candidates[j] => i = j
    /\ \A i, j \in 1 .. Len(futures) : futures[i] = futures[j] => i = j
    /\ \A f, g \in Files : f # g => Writing(f) \cap Writing(g) = {}

\* C17 witness: two tasks write their temp files at the same time.
NoWriteRaceWitness ==
    \E f, g \in Files : f # g /\ pc[f] = "aw_write" /\ pc[g] = "aw_write"

\* C18: with --backup and no dry run, whenever a target no longer shows its
\* original content, its .bak sibling exists and holds exactly that content.
BackupPrecedesReplace ==
    (backup /\ ~dry_run) =>
        \A f \in Files :
            ~Shows(Target(f), Orig(f)) => Shows(Bak(f), Orig(f))

\* C18 witness: a target was replaced by its new content after its backup.
BackupPrecedesReplaceWitness ==
    /\ backup /\ ~dry_run
    /\ \E f \in Files :
          /\ pc[f] = "ret_ok"
          /\ Shows(Target(f), refactored_src[f])
          /\ Shows(Bak(f), Orig(f))

\* C19: once atomic_write has ended, normally or by a failure, no temp file
\* of that call is left; at the end of the run the only new paths are .bak
\* siblings.
NoLeftoverTemp ==
    ~dry_run =>
        /\ \A f \in Files : FutureDone(f) => Tmp(f) \notin DOMAIN fs
        /\ mainpc = "done" =>
              DOMAIN fs \subseteq {Target(f) : f \in Files} \cup {Bak(f) : f \in Files}

\* The text has a quote, no block-comment marker, and each of its quotes
\* comes after a "//" on its own line.
QuotesOnlyInLineComments(t) ==
    /\ \E i \in 1 .. Len(t) : t[i] = "q"
    /\ \A i \in 1 .. Len(t) : ~IsPair(t, i, "s", "x")
    /\ \A i \in 1 .. Len(t) :
           t[i] = "q" =>
               \E j \in 1 .. (i - 1) :
                   /\ IsPair(t, j, "s", "s")
                   /\ \A k \in j .. i : t[k] # "n"

\* C14: a text whose only quotes lie inside line comments, whether the
\* last comment ends with a newline or with the end of the text, is
\* classified as holding no literal.
LineCommentWins ==
    (lexpc = "done" /\ QuotesOnlyInLineComments(java_src))
        => has_literal = FALSE

\* The text opens a block comment at i, with no quote and no slash before
\* it, and holds no "*/" after the marker.
UnterminatedBlockAt(t, i) ==
    /\ IsPair(t, i, "s", "x")
    /\ \A k \in 1 .. (i - 1) : t[k] \notin {"q", "s"}
    /\ \A j \in (i + 2) .. Len(t) : ~IsPair(t, j, "x", "s")

\* C15: when a block comment is opened and never closed, and no literal
\* comes before it, strip_comments drops everything from the marker to the
\* end of the text and the text is classified as holding no literal.
UnterminatedBlock ==
    lexpc = "done" =>
        \A i \in 1 .. Len(java_src) :
            UnterminatedBlockAt(java_src, i) =>
                /\ stripped = SubSeq(java_src, 1, i - 1)
                /\ has_literal = FALSE

\* C20: has_string_literal returns True exactly when the scan of
\* strip_comments over the original text matched a literal.
OnePassAgrees ==
    lexpc = "done" => (has_literal <=> "literal" \in ScanKinds(java_src, 1))

\* The paths collect_java_files should return for the entries walked so
\* far: the files, with no excluded name among root and the directories
\* below it. Every state is the end of the walk over the tree that holds
\* exactly the entries yielded so far.
ExpectedFiles ==
    {Parts(root, e) :
        e \in {d \in yielded :
                  /\ ~d.leaf.isdir
                  /\ root[Len(root)] \notin excludes
                  /\ \A i \in 1 .. Len(d.dirs) : d.dirs[i] \notin excludes}}

\* C16: collect_java_files returns exactly the "*.java" files with no
\* excluded directory from root down to the file, whatever the file's own
\* name and the names above root, each path once.
DiscoveryPruning ==
    /\ {java_files[i] : i \in 1 .. Len(java_files)} = ExpectedFiles
    /\ \A i, j \in 1 .. Len(java_files) :
           java_files[i] = java_files[j] => i = j

====
